---- MODULE Spec2Model ----
(***************************************************************************)
(* Market Research Assistant (app.py): the Streamlit script's session      *)
(* state, the "Start Research" and "New Research" button handlers, and     *)
(* the three pipeline functions validate_industry, get_wikipedia_urls and  *)
(* generate_report.  Every call to an external collaborator (the Gemini    *)
(* generation service, the Wikipedia retriever) is one step whose outcome  *)
(* the environment chooses: it raises, or it returns some text / hits.     *)
(*                                                                         *)
(* Texts are sequences of symbols.  A symbol is a character, except that   *)
(* the scheme "http" and a page name are one symbol each.  A generated     *)
(* report is abstract prose: only its whitespace-delimited word count and  *)
(* the prompt it answers (industry, urls) are kept.                        *)
(***************************************************************************)
EXTENDS Integers, Sequences, FiniteSets, TLC

VARIABLES
    step, industry, urls, report,      \* st.session_state
    api_key, industry_input,           \* widget values of the current run
    pc,                                \* position of the script
    validation,                        \* outcome of validate_industry
    candidates,                        \* get_wikipedia_urls: local candidates
    response,                          \* get_wikipedia_urls: lines of response.text
    selected,                          \* outcome of get_wikipedia_urls
    idx, all_content,                  \* generate_report: loop over urls
    first_report,                      \* generate_report: report before the word check
    generated,                         \* outcome of generate_report
    trace,                             \* calls made in the current run of the script
    at_click,                          \* session state when the current run began
    message                            \* st.error / st.success shown by the current run

vars == <<step, industry, urls, report, api_key, industry_input, pc, validation,
          candidates, response, selected, idx, all_content, first_report, generated,
          trace, at_click, message>>

session == [step |-> step, industry |-> industry, urls |-> urls, report |-> report]

-----------------------------------------------------------------------------
(* Bounds of the model *)

MaxHits == 6          \* hits a search returns, ranking stage alone (top_k_results is 10)
MaxLines == 6         \* lines of a selection response, ranking stage alone
SessionHits == 1      \* hits a search returns inside a whole session
SessionLines == 1     \* lines of a selection response inside a whole session

(* Program constants *)

TopUrls == 5          \* selected_urls[:5]
MaxWords == 500       \* if word_count > 500

-----------------------------------------------------------------------------
(* Texts *)

Space == " "

RECURSIVE LStrip(_)
LStrip(s) == IF s # <<>> /\ Head(s) = Space THEN LStrip(Tail(s)) ELSE s

RECURSIVE RStrip(_)
RStrip(s) ==
    IF s # <<>> /\ s[Len(s)] = Space THEN RStrip(SubSeq(s, 1, Len(s) - 1)) ELSE s

\* str.strip()
Strip(s) == RStrip(LStrip(s))

UpperChar(c) ==
    CASE c = "y" -> "Y"
      [] c = "e" -> "E"
      [] c = "s" -> "S"
      [] c = "n" -> "N"
      [] c = "o" -> "O"
      [] OTHER -> c

\* str.upper()
Upper(s) == [i \in 1..Len(s) |-> UpperChar(s[i])]

\* needle in s
Contains(s, needle) ==
    \E i \in 0..(Len(s) - Len(needle)) :
        \A j \in 1..Len(needle) : s[i + j] = needle[j]

\* str.startswith
StartsWith(s, prefix) ==
    /\ Len(s) >= Len(prefix)
    /\ \A j \in 1..Len(prefix) : s[j] = prefix[j]

\* sequences over S of length at most n
SeqUpTo(S, n) == UNION {[1..k -> S] : k \in 0..n}

-----------------------------------------------------------------------------
(* What the environment may supply *)

\* what an external call does: it raises, or it returns v
Raises == [raised |-> TRUE]
Gives(v) == [raised |-> FALSE, value |-> v]
Outcomes(S) == {Raises} \cup {Gives(v) : v \in S}

ApiKeys == {<<>>, <<"k">>}

IndustryInputs ==
    { <<>>, <<Space, Space>>, <<"a", "u", "t", "o">>, <<Space, "r", "e", "t", Space>> }

\* texts the generation service may answer the validation prompt with
ValidationTexts ==
    { <<"Y", "E", "S">>, <<Space, "y", "e", "s", ".">>, <<"N", "O">>,
      <<"e", "y", "e", "s">>, <<>> }

\* the source URL of page p
Url(p) == <<"http", p>>

\* documents the retriever may return: with a source or without
Docs == { [has_source |-> TRUE, source |-> Url("A")],
          [has_source |-> TRUE, source |-> Url("B")],
          [has_source |-> FALSE, source |-> <<>>] }

\* lines the generation service may answer the selection prompt with
Lines == { Url("A"), <<Space, "http", "X", Space>>, <<"1", ".", Space, "http", "A">> }

\* word counts of the texts the generation service may answer a report prompt with
WordCounts == {0, MaxWords, MaxWords + 1}

\* a report of w words written for the prompt about (ind, us)
Report(w, ind, us) == [words |-> w, industry |-> ind, urls |-> us]

\* ""
EmptyReport == Report(0, <<>>, <<>>)

\* response.text.strip(): a text without words strips to ""
StripReport(r) == IF r.words = 0 THEN EmptyReport ELSE r

\* len(report.split())
WordCount(r) == r.words

-----------------------------------------------------------------------------
(* Outcome of a call: a returned value, or an exception escaping to the caller *)

Returned(v) == [escaped |-> FALSE, value |-> v]
Escaped == [escaped |-> TRUE]

-----------------------------------------------------------------------------
(* validate_industry *)

MsgNoKey == <<"Please enter your API key in the sidebar first.">>
MsgNoIndustry == <<"Please provide an industry name.">>
MsgNotIndustry == <<"This doesn't appear to be a valid industry.">>
MsgValidateError == <<"Error validating industry">>

\* except Exception as e: return False, f"Error validating industry: ..."
ValidateOnError == Returned(<<FALSE, MsgValidateError>>)

\* as ValidateEarly, with the whitespace-only check left out
ValidateEarlyNoStrip(input, key) == key = <<>> \/ input = <<>>

\* if not api_key ... if not industry_input or industry_input.strip() == "":
\* TRUE when the function returns before the try block
ValidateEarly(input, key) == key = <<>> \/ input = <<>> \/ Strip(input) = <<>>

\* answer: what model.generate_content does when it is reached
validate_industry(input, key, answer) ==
    IF ValidateEarly(input, key)
    THEN IF key = <<>> THEN Returned(<<FALSE, MsgNoKey>>)
         ELSE Returned(<<FALSE, MsgNoIndustry>>)
    ELSE IF answer.raised THEN ValidateOnError
    ELSE IF Contains(Upper(Strip(answer.value)), <<"Y", "E", "S">>)
         THEN Returned(<<TRUE, Strip(input)>>)
         ELSE Returned(<<FALSE, MsgNotIndustry>>)

-----------------------------------------------------------------------------
(* get_wikipedia_urls *)

\* except Exception as e: st.error(...); return []
UrlsOnError == Returned(<<>>)

\* for doc in docs: if hasattr(doc, 'metadata') and 'source' in doc.metadata: append
RECURSIVE Candidates(_)
Candidates(docs) ==
    IF docs = <<>> THEN <<>>
    ELSE IF Head(docs).has_source
         THEN <<Head(docs).source>> \o Candidates(Tail(docs))
         ELSE Candidates(Tail(docs))

\* [url.strip() for url in lines if url.strip().startswith('http')]
RECURSIVE ParseSelection(_)
ParseSelection(lines) ==
    IF lines = <<>> THEN <<>>
    ELSE IF StartsWith(Strip(Head(lines)), <<"http">>)
         THEN <<Strip(Head(lines))>> \o ParseSelection(Tail(lines))
         ELSE ParseSelection(Tail(lines))

\* as TakeTop, with the slice left out
TakeAll(selected_urls) == selected_urls

\* selected_urls[:5] if len(selected_urls) >= 5 else selected_urls
TakeTop(selected_urls) ==
    IF Len(selected_urls) >= TopUrls THEN SubSeq(selected_urls, 1, TopUrls)
    ELSE selected_urls

-----------------------------------------------------------------------------
(* generate_report *)

\* as ReportOnError, with the exception raised again instead of handled
ReportReraises == Escaped

\* except Exception as e: st.error(...); return ""
ReportOnError == Returned(EmptyReport)

\* url.split('/wiki/')[-1].replace('_', ' ')
PageTitle(url) == Tail(url)

\* as OverBudget, with >= for >
OverBudgetAtLimit(r) == WordCount(r) >= MaxWords

\* if word_count > 500
OverBudget(r) == WordCount(r) > MaxWords

-----------------------------------------------------------------------------
(* Messages of the script *)

MsgNone == <<>>
MsgButtonNoKey == <<"Please enter your API key in the sidebar first!">>
MsgValid == <<"Valid industry">>
MsgNoUrls == <<"Failed to retrieve Wikipedia URLs. Please try again.">>
MsgNoReport == <<"Failed to generate report. Please try again.">>
MsgUncaught == <<"uncaught exception">>

\* the events an external call leaves in the trace
Called(name, out) == IF out.raised THEN <<name, "raise">> ELSE <<name>>

-----------------------------------------------------------------------------
(* State after the script's first run *)

Init ==
    /\ step = 1
    /\ industry = <<>>
    /\ urls = <<>>
    /\ report = EmptyReport
    /\ api_key = <<>>
    /\ industry_input = <<>>
    /\ pc = "idle"
    /\ validation = Returned(<<FALSE, MsgNone>>)
    /\ candidates = <<>>
    /\ response = <<>>
    /\ selected = Returned(<<>>)
    /\ idx = 0
    /\ all_content = <<>>
    /\ first_report = EmptyReport
    /\ generated = Returned(EmptyReport)
    /\ trace = <<>>
    /\ at_click = [step |-> 1, industry |-> <<>>, urls |-> <<>>, report |-> EmptyReport]
    /\ message = MsgNone

sessionVars == <<step, industry, urls, report>>
widgetVars == <<api_key, industry_input>>
urlsLocals == <<candidates, response, selected>>
reportLocals == <<idx, all_content, first_report, generated>>

-----------------------------------------------------------------------------
(* Widgets *)

\* st.text_input("Enter your API Key")
EnterApiKey(k) ==
    /\ pc = "idle"
    /\ api_key' = k
    /\ UNCHANGED <<sessionVars, industry_input, pc, validation, urlsLocals,
                   reportLocals, trace, at_click, message>>

\* st.text_input("What industry would you like to research?")
EnterIndustry(t) ==
    /\ pc = "idle"
    /\ industry_input' = t
    /\ UNCHANGED <<sessionVars, api_key, pc, validation, urlsLocals,
                   reportLocals, trace, at_click, message>>

-----------------------------------------------------------------------------
(* The Start Research handler and the functions it calls *)

\* if st.button("Start Research"): if not api_key: st.error(...) else: ...
ClickStart ==
    /\ pc = "idle"
    /\ IF api_key = <<>>
       THEN /\ message' = MsgButtonNoKey
            /\ pc' = "done"
       ELSE /\ message' = MsgNone
            /\ pc' = "validate"
    /\ UNCHANGED <<sessionVars, widgetVars, validation, urlsLocals, reportLocals,
                   trace, at_click>>

\* is_valid, result = validate_industry(industry_input, api_key)
CallValidate ==
    /\ pc = "validate"
    /\ \E answer \in Outcomes(ValidationTexts) :
        /\ validation' = validate_industry(industry_input, api_key, answer)
        /\ trace' = trace \o <<"validate_industry">> \o
                    (IF ValidateEarly(industry_input, api_key) THEN <<>>
                     ELSE Called("generate(validate)", answer))
    /\ pc' = "validated"
    /\ UNCHANGED <<sessionVars, widgetVars, urlsLocals, reportLocals, at_click, message>>

\* as StartValidated, with a step already past 2 left where it is
StartValidatedKeepsStep ==
    /\ pc = "validated"
    /\ IF validation.escaped
       THEN /\ message' = MsgUncaught
            /\ pc' = "done"
            /\ UNCHANGED <<step, industry>>
       ELSE IF validation.value[1]
       THEN /\ message' = MsgValid
            /\ industry' = validation.value[2]
            /\ step' = IF step > 2 THEN step ELSE 2
            /\ pc' = "urls_search"
       ELSE /\ message' = validation.value[2]
            /\ pc' = "done"
            /\ UNCHANGED <<step, industry>>
    /\ UNCHANGED <<urls, report, widgetVars, validation, urlsLocals, reportLocals,
                   trace, at_click>>

\* if is_valid: ... step = 2 ... else: st.error(result)
StartValidated ==
    /\ pc = "validated"
    /\ IF validation.escaped
       THEN /\ message' = MsgUncaught
            /\ pc' = "done"
            /\ UNCHANGED <<step, industry>>
       ELSE IF validation.value[1]
       THEN /\ message' = MsgValid
            /\ industry' = validation.value[2]
            /\ step' = 2
            /\ pc' = "urls_search"
       ELSE /\ message' = validation.value[2]
            /\ pc' = "done"
            /\ UNCHANGED <<step, industry>>
    /\ UNCHANGED <<urls, report, widgetVars, validation, urlsLocals, reportLocals,
                   trace, at_click>>

\* get_wikipedia_urls: genai.configure ... retriever.get_relevant_documents(industry),
\* then the candidates loop
UrlsSearch(maxHits) ==
    /\ pc = "urls_search"
    /\ \E out \in Outcomes(SeqUpTo(Docs, maxHits)) :
        /\ trace' = trace \o <<"get_wikipedia_urls">> \o Called("search(urls)", out)
        /\ IF out.raised
           THEN /\ selected' = UrlsOnError
                /\ candidates' = <<>>
                /\ pc' = "urls_return"
           ELSE /\ candidates' = Candidates(out.value)
                /\ selected' = selected
                /\ pc' = "urls_select"
    /\ UNCHANGED <<sessionVars, widgetVars, validation, response, reportLocals,
                   at_click, message>>

\* get_wikipedia_urls: model.generate_content(prompt), parse, take the top 5
UrlsSelect(maxLines) ==
    /\ pc = "urls_select"
    /\ \E out \in Outcomes(SeqUpTo(Lines, maxLines)) :
        /\ trace' = trace \o Called("generate(select)", out)
        /\ response' = IF out.raised THEN <<>> ELSE out.value
        /\ selected' = IF out.raised THEN UrlsOnError
                       ELSE Returned(TakeTop(ParseSelection(out.value)))
    /\ pc' = "urls_return"
    /\ UNCHANGED <<sessionVars, widgetVars, validation, candidates, reportLocals,
                   at_click, message>>

\* as StartGotUrls, with the "if urls:" test left out
StartGotUrlsUnchecked ==
    /\ pc = "urls_return"
    /\ IF selected.escaped
       THEN /\ message' = MsgUncaught
            /\ pc' = "done"
            /\ UNCHANGED <<urls, step>>
       ELSE /\ urls' = selected.value
            /\ step' = 3
            /\ pc' = "report_setup"
            /\ message' = message
    /\ candidates' = <<>>
    /\ response' = <<>>
    /\ UNCHANGED <<industry, report, widgetVars, validation, selected, reportLocals,
                   trace, at_click>>

\* urls = get_wikipedia_urls(...); if urls: ... step = 3 ... else: st.error(...)
StartGotUrls ==
    /\ pc = "urls_return"
    /\ IF selected.escaped
       THEN /\ message' = MsgUncaught
            /\ pc' = "done"
            /\ UNCHANGED <<urls, step>>
       ELSE IF selected.value # <<>>
       THEN /\ urls' = selected.value
            /\ step' = 3
            /\ pc' = "report_setup"
            /\ message' = message
       ELSE /\ message' = MsgNoUrls
            /\ pc' = "done"
            /\ UNCHANGED <<urls, step>>
    /\ candidates' = <<>>
    /\ response' = <<>>
    /\ UNCHANGED <<industry, report, widgetVars, validation, selected, reportLocals,
                   trace, at_click>>

\* generate_report: genai.configure, GenerativeModel, WikipediaRetriever(top_k_results=5)
ReportSetup ==
    /\ pc = "report_setup"
    /\ \E out \in Outcomes({TRUE}) :
        /\ trace' = trace \o <<"generate_report">> \o Called("setup(report)", out)
        /\ IF out.raised
           THEN /\ generated' = ReportOnError
                /\ pc' = "report_return"
                /\ UNCHANGED <<idx, all_content>>
           ELSE /\ idx' = 1
                /\ all_content' = <<>>
                /\ generated' = generated
                /\ pc' = IF urls = <<>> THEN "report_generate" ELSE "report_fetch"
    /\ UNCHANGED <<sessionVars, widgetVars, validation, urlsLocals, first_report,
                   at_click, message>>

\* what the loop body does with the outcome of one search: a raise is swallowed
\* (except: continue), no document adds nothing, a document adds its content
Fetched(content, url, out) ==
    IF out.raised THEN content
    ELSE IF out.value THEN Append(content, PageTitle(url))
    ELSE content

\* generate_report: one turn of "for url in urls"; out.value says whether docs is non-empty
ReportFetch ==
    /\ pc = "report_fetch"
    /\ idx <= Len(urls)
    /\ \E out \in Outcomes(BOOLEAN) :
        /\ trace' = trace \o Called("search(report)", out)
        /\ all_content' = Fetched(all_content, urls[idx], out)
    /\ idx' = idx + 1
    /\ pc' = IF idx = Len(urls) THEN "report_generate" ELSE "report_fetch"
    /\ UNCHANGED <<sessionVars, widgetVars, validation, urlsLocals, first_report,
                   generated, at_click, message>>

\* generate_report: response = model.generate_content(prompt); the word check
ReportGenerate ==
    /\ pc = "report_generate"
    /\ \E out \in Outcomes(WordCounts) :
        /\ trace' = trace \o Called("generate(report)", out)
        /\ IF out.raised
           THEN /\ generated' = ReportOnError
                /\ first_report' = first_report
                /\ pc' = "report_return"
           ELSE LET r == StripReport(Report(out.value, industry, urls)) IN
                /\ first_report' = r
                /\ IF OverBudget(r)
                   THEN /\ pc' = "report_condense"
                        /\ generated' = generated
                   ELSE /\ pc' = "report_return"
                        /\ generated' = Returned(r)
    /\ UNCHANGED <<sessionVars, widgetVars, validation, urlsLocals, idx, all_content,
                   at_click, message>>

\* what generate_report returns once the condense request has answered with r
Condensed(r) == Returned(r)

\* generate_report: response = model.generate_content(condense_prompt); return report
ReportCondense ==
    /\ pc = "report_condense"
    /\ \E out \in Outcomes(WordCounts) :
        /\ trace' = trace \o Called("generate(condense)", out)
        /\ generated' = IF out.raised THEN ReportOnError
                        ELSE Condensed(StripReport(Report(out.value, industry, urls)))
    /\ pc' = "report_return"
    /\ UNCHANGED <<sessionVars, widgetVars, validation, urlsLocals, idx, all_content,
                   first_report, at_click, message>>

\* report = generate_report(...); if report: ... step = 4 else: st.error(...)
StartGotReport ==
    /\ pc = "report_return"
    /\ IF generated.escaped
       THEN /\ message' = MsgUncaught
            /\ UNCHANGED <<report, step>>
       ELSE IF WordCount(generated.value) > 0
       THEN /\ report' = generated.value
            /\ step' = 4
            /\ message' = message
       ELSE /\ message' = MsgNoReport
            /\ UNCHANGED <<report, step>>
    /\ pc' = "done"
    /\ idx' = 0
    /\ all_content' = <<>>
    /\ UNCHANGED <<industry, urls, widgetVars, validation, urlsLocals, first_report,
                   generated, trace, at_click>>

-----------------------------------------------------------------------------
(* The New Research handler *)

\* if st.session_state.step > 1: if st.button("New Research"): reset; st.rerun()
ClickNewResearch ==
    /\ pc = "idle"
    /\ step > 1
    /\ step' = 1
    /\ industry' = <<>>
    /\ urls' = <<>>
    /\ report' = EmptyReport
    /\ at_click' = [step |-> 1, industry |-> <<>>, urls |-> <<>>, report |-> EmptyReport]
    /\ UNCHANGED <<widgetVars, pc, validation, urlsLocals, reportLocals, trace, message>>

-----------------------------------------------------------------------------
(* The run of the script ends: what it showed and its locals are gone *)

EndRun ==
    /\ pc = "done"
    /\ pc' = "idle"
    /\ trace' = <<>>
    /\ at_click' = session
    /\ message' = MsgNone
    /\ validation' = Returned(<<FALSE, MsgNone>>)
    /\ selected' = Returned(<<>>)
    /\ first_report' = EmptyReport
    /\ generated' = Returned(EmptyReport)
    /\ UNCHANGED <<sessionVars, widgetVars, candidates, response, idx, all_content>>

-----------------------------------------------------------------------------
(* The whole session *)

Next ==
    \/ \E k \in ApiKeys : EnterApiKey(k)
    \/ \E t \in IndustryInputs : EnterIndustry(t)
    \/ ClickStart
    \/ CallValidate
    \/ StartValidated
    \/ UrlsSearch(SessionHits)
    \/ UrlsSelect(SessionLines)
    \/ StartGotUrls
    \/ ReportSetup
    \/ ReportFetch
    \/ ReportGenerate
    \/ ReportCondense
    \/ StartGotReport
    \/ ClickNewResearch
    \/ EndRun

Spec == Init /\ [][Next]_vars

-----------------------------------------------------------------------------
(* The ranking stage alone: get_wikipedia_urls called again and again for a    *)
(* validated industry, with longer hit lists and responses than in a session. *)

Auto == <<"a", "u", "t", "o">>

InitUrls ==
    /\ step = 2
    /\ industry = Auto
    /\ urls = <<>>
    /\ report = EmptyReport
    /\ api_key = <<"k">>
    /\ industry_input = Auto
    /\ pc = "urls_search"
    /\ validation = Returned(<<TRUE, Auto>>)
    /\ candidates = <<>>
    /\ response = <<>>
    /\ selected = Returned(<<>>)
    /\ idx = 0
    /\ all_content = <<>>
    /\ first_report = EmptyReport
    /\ generated = Returned(EmptyReport)
    /\ trace = <<"validate_industry", "generate(validate)">>
    /\ at_click = [step |-> 1, industry |-> <<>>, urls |-> <<>>, report |-> EmptyReport]
    /\ message = MsgValid

UrlsAgain ==
    /\ pc = "urls_return"
    /\ pc' = "urls_search"
    /\ candidates' = <<>>
    /\ response' = <<>>
    /\ selected' = Returned(<<>>)
    /\ trace' = <<"validate_industry", "generate(validate)">>
    /\ UNCHANGED <<sessionVars, widgetVars, validation, reportLocals, at_click, message>>

NextUrls ==
    \/ UrlsSearch(MaxHits)
    \/ UrlsSelect(MaxLines)
    \/ UrlsAgain

SpecUrls == InitUrls /\ [][NextUrls]_vars

-----------------------------------------------------------------------------
(* Reading the trace of the current run *)

Has(e) == \E i \in 1..Len(trace) : trace[i] = e

Count(e) == Cardinality({i \in 1..Len(trace) : trace[i] = e})

\* the call e raised
RaisedIn(e) == \E i \in 1..(Len(trace) - 1) : trace[i] = e /\ trace[i + 1] = "raise"

IsStage(e) == e \in {"validate_industry", "get_wikipedia_urls", "generate_report"}

StageOrder == <<"validate_industry", "get_wikipedia_urls", "generate_report">>

IsPrefix(a, b) == Len(a) <= Len(b) /\ SubSeq(b, 1, Len(a)) = a

Range(q) == {q[i] : i \in 1..Len(q)}

NoDuplicates(q) == \A i, j \in 1..Len(q) : q[i] = q[j] => i = j

\* generation requests issued by the current generate_report call
ReportRequests == Count("generate(report)") + Count("generate(condense)")

-----------------------------------------------------------------------------
(* Claims about generate_report *)

\* C1: every report generate_report hands back has at most MaxWords (500) words,
\* whatever the generation service answers to the first and to the condense request.
C1_ReportWithinBudget ==
    (pc = "report_return" /\ ~generated.escaped)
        => WordCount(generated.value) <= MaxWords

\* C2: within one generate_report call the condense request is issued if and only
\* if the first generated report has more than 500 words, and at most once: one
\* generation request when the first report is within budget, exactly two
\* otherwise, never three or more.
C2_CondenseIffOverBudgetOnce ==
    /\ Count("generate(report)") <= 1
    /\ Count("generate(condense)") <= 1
    /\ pc = "report_return" =>
        /\ Has("generate(condense)") <=>
              (Has("generate(report)") /\ ~RaisedIn("generate(report)")
                  /\ first_report.words > MaxWords)
        /\ (Has("generate(report)") /\ ~RaisedIn("generate(report)")) =>
              ReportRequests = (IF first_report.words > MaxWords THEN 2 ELSE 1)

C2_Witness ==
    /\ pc = "report_return"
    /\ first_report.words > MaxWords
    /\ ReportRequests = 2

\* C3 as stated: no exception of a collaborator reaches the caller, and a raise
\* anywhere inside get_wikipedia_urls gives [], anywhere inside generate_report
\* gives "", inside validate_industry gives (False, message).
C3_AnyRaiseGivesEmpty ==
    /\ pc = "validated" =>
        /\ ~validation.escaped
        /\ RaisedIn("generate(validate)") => ~validation.value[1]
    /\ pc = "urls_return" =>
        /\ ~selected.escaped
        /\ (RaisedIn("search(urls)") \/ RaisedIn("generate(select)"))
              => selected.value = <<>>
    /\ pc = "report_return" =>
        /\ ~generated.escaped
        /\ (RaisedIn("setup(report)") \/ RaisedIn("search(report)")
              \/ RaisedIn("generate(report)") \/ RaisedIn("generate(condense)"))
              => generated.value = EmptyReport

\* C3 amended: no exception of a collaborator reaches the caller and each function
\* returns a value; a raise inside validate_industry gives (False, message), inside
\* get_wikipedia_urls gives [], and inside generate_report a raise of the set-up or
\* of a generation call gives "", while a raise of the search for one URL is
\* swallowed and the function goes on without that URL's content.
C3_NoExceptionEscapes ==
    /\ message # MsgUncaught
    /\ pc = "validated" =>
        /\ ~validation.escaped
        /\ RaisedIn("generate(validate)") => validation = ValidateOnError
    /\ pc = "urls_return" =>
        /\ ~selected.escaped
        /\ (RaisedIn("search(urls)") \/ RaisedIn("generate(select)"))
              => selected.value = <<>>
    /\ pc \in {"report_fetch", "report_generate", "report_condense"} =>
        ~RaisedIn("setup(report)")
    /\ pc = "report_return" =>
        /\ ~generated.escaped
        /\ (RaisedIn("setup(report)") \/ RaisedIn("generate(report)")
              \/ RaisedIn("generate(condense)"))
              => generated.value = EmptyReport
        /\ RaisedIn("search(report)") =>
              (Has("generate(report)") /\ Len(all_content) < Len(urls))

C3_Witness ==
    /\ pc = "report_return"
    /\ RaisedIn("search(report)")
    /\ ~generated.escaped
    /\ generated.value # EmptyReport

-----------------------------------------------------------------------------
(* Claims about the Start Research handler and the session state *)

\* C4: the stages of one research request run strictly in order and stop at an
\* empty result: get_wikipedia_urls is invoked only after validate_industry
\* returned success, generate_report only after get_wikipedia_urls returned a
\* non-empty list; after an empty result no later stage is invoked in the request
\* and step stays at 2 (no URLs) or at 3 (empty report).
C4_StagesInOrder ==
    /\ IsPrefix(SelectSeq(trace, IsStage), StageOrder)
    /\ Has("get_wikipedia_urls") =>
        /\ ~validation.escaped
        /\ validation.value[1]
    /\ Has("generate_report") =>
        /\ ~selected.escaped
        /\ selected.value # <<>>
        /\ urls = selected.value
    /\ (pc = "done" /\ Has("get_wikipedia_urls") /\ ~Has("generate_report")) =>
        /\ selected.value = <<>>
        /\ step = 2
    /\ (pc = "done" /\ Has("generate_report") /\ generated.value = EmptyReport) =>
        step = 3

C4_Witness ==
    /\ pc = "done"
    /\ Has("generate_report")
    /\ generated.value = EmptyReport
    /\ message = MsgNoReport
    /\ step = 3

\* C9: after any clicks of Start Research and New Research, step is in 1..4,
\* step >= 3 implies urls is non-empty, and step = 4 implies report is non-empty
\* and is the value generate_report returned for the stored industry and urls.
C9_SessionConsistent ==
    /\ step \in 1..4
    /\ step >= 3 => urls # <<>>
    /\ step = 4 =>
        /\ report.words > 0
        /\ report.industry = industry
        /\ report.urls = urls

\* a second request that stopped at step 3 while the report of the first request,
\* written for another industry, is still stored
C9_Witness ==
    /\ pc = "done"
    /\ step = 3
    /\ report.words > 0
    /\ report.industry # industry

\* C10: a Start Research click whose validation fails (empty API key, empty or
\* whitespace-only input, a response without "YES", a raising validation call)
\* leaves step, industry, urls and report unchanged and invokes neither
\* get_wikipedia_urls nor generate_report; with an empty key or a blank input no
\* request to the generation service is made at all.
C10_FailedValidationTouchesNothing ==
    /\ (pc = "done" /\ (api_key = <<>> \/ (Has("validate_industry")
                            /\ validation \in {Returned(<<FALSE, MsgNoKey>>),
                                               Returned(<<FALSE, MsgNoIndustry>>),
                                               Returned(<<FALSE, MsgNotIndustry>>),
                                               ValidateOnError}))) =>
        /\ session = at_click
        /\ ~Has("get_wikipedia_urls")
        /\ ~Has("generate_report")
    /\ (pc \in {"validated", "done"}
          /\ (api_key = <<>> \/ industry_input = <<>> \/ Strip(industry_input) = <<>>)) =>
        /\ ~Has("generate(validate)")
        /\ ~Has("generate(select)")
        /\ ~Has("generate(report)")
        /\ pc = "done" => session = at_click

\* a blank input with a key, on a session that already holds a report
C10_Witness ==
    /\ pc = "done"
    /\ api_key # <<>>
    /\ industry_input # <<>>
    /\ Strip(industry_input) = <<>>
    /\ Has("validate_industry")
    /\ at_click.step = 4

-----------------------------------------------------------------------------
(* Claims about the ranking stage, get_wikipedia_urls *)

\* the response was received and holds no line naming a candidate
NoValidEntry ==
    /\ Has("generate(select)")
    /\ ~RaisedIn("generate(select)")
    /\ \A i \in 1..Len(response) : Strip(response[i]) \notin Range(candidates)

\* C5: the selection get_wikipedia_urls returns has at most 5 entries, whatever
\* the generation service answers, also when it lists more than 5 valid entries.
C5_AtMostFive ==
    pc = "urls_return" => (~selected.escaped /\ Len(selected.value) <= TopUrls)

C5_Witness ==
    /\ pc = "urls_return"
    /\ Len(ParseSelection(response)) > TopUrls
    /\ Len(selected.value) = TopUrls

\* C6: every entry of the returned selection is one of the candidates retrieved
\* for this request; any other token of the response is skipped.
C6_SelectionFromCandidates ==
    pc = "urls_return" => Range(selected.value) \subseteq Range(candidates)

\* C7: when more than 5 candidates were retrieved and the response holds no valid
\* selection entry, the ranking stage returns the first 5 candidates in retrieval
\* order instead of an empty selection.
C7_FallbackToFirstFive ==
    (pc = "urls_return" /\ Len(candidates) > TopUrls /\ NoValidEntry)
        => selected.value = SubSeq(candidates, 1, TopUrls)

\* C8: the candidate list holds no URL twice, whatever hits the document source
\* returns, and so the returned selection holds no URL twice either.
C8_NoDuplicateUrls ==
    /\ NoDuplicates(candidates)
    /\ pc = "urls_return" => NoDuplicates(selected.value)

====
